---- MODULE Spec2Model ----
(***************************************************************************)
(* Monitoring core of najm_nam_core: src/api_monitor.py (class APIMonitor  *)
(* and the request handlers that call it) and src/cli_monitor.py.          *)
(*                                                                         *)
(* Threads.  socketserver.TCPServer serves one request at a time, so the   *)
(* handlers run one after the other on the main thread (mainpc).  Every    *)
(* start_monitoring() that passes its test creates one more daemon thread  *)
(* running monitor_urls (pc[w]).  No lock is taken anywhere: the threads   *)
(* interleave between the statements that touch self.urls,                 *)
(* self.status_data and self.monitoring, which is the grain of the actions *)
(* below.  A dict or list method (update, append, pop, del) is one step.   *)
(*                                                                         *)
(* Python's None is the empty sequence <<>>, a present value x is <<x>>.   *)
(*                                                                         *)
(* Two parts of the program are also run on their own: one call of         *)
(* check_url on every kind of outcome (probe), and the argument loop of    *)
(* cli_monitor.py main() on every short argument list (cli).               *)
(***************************************************************************)
EXTENDS Integers, Sequences, FiniteSets, TLC

VARIABLES
    urls,            \* self.urls: list of {'url','name','id'}
    status_data,     \* self.status_data: dict url -> state dict
    monitoring,      \* self.monitoring
    monitor_thread,  \* self.monitor_thread: <<>> or <<thread>>
    mainpc,          \* main thread: "idle" or the statement it is about to run
    mainurl,         \* local `url` of the handler the main thread is inside
    pc,              \* pc[w]: statement thread w is about to run
    it,              \* it[w]: index of the list iterator of `for url_info in self.urls`
    url,             \* url[w]: local `url` of monitor_urls
    result,          \* result[w]: local `result` of monitor_urls
    history_entry,   \* history_entry[w]: local `history_entry` of monitor_urls
    now,             \* the wall clock read by datetime.datetime.now()
    probe,           \* one call of check_url on its own: what urlopen did, what is returned
    cli              \* cli_monitor.py main(): sys.argv[1:], the locals of main, monitor.urls

vars == <<urls, status_data, monitoring, monitor_thread, mainpc, mainurl,
          pc, it, url, result, history_entry, now, probe, cli>>

mainvars == <<mainpc, mainurl>>
workervars == <<pc, it, url, result, history_entry>>

-----------------------------------------------------------------------------
(* Bounds of the model *)

MaxTargets == 2      \* add_url is not called on a registry of this length
NumUrls == 2         \* distinct URL strings a caller passes
MaxThreads == 2      \* Thread objects start_monitoring creates
MaxProbes == 2       \* probes issued before the clock stops the concurrent model
RingProbes == 53     \* probes of the single-target run
MaxArgs == 4         \* command-line arguments given to cli_monitor.py
CycleProbes == 4     \* probes of the run in which every kind of result occurs

(* Program constants *)

HistoryCap == 50

UrlNames == <<"u1", "u2", "u3", "u4">>
URLs == {UrlNames[i] : i \in 1..NumUrls}
Names == {"A"}
Threads == 1..MaxThreads

None == <<>>
Some(x) == <<x>>
NameArgs == {None} \cup {Some(x) : x \in Names}

-----------------------------------------------------------------------------
(* check_url: the classification of one attempt's outcome *)

\* What urlopen did: returned a response, or raised.
Response(code, ms) == [kind |-> "response", code |-> code, ms |-> ms]
HTTPError(code, ms) == [kind |-> "HTTPError", code |-> code, ms |-> ms]
URLError(ms) == [kind |-> "URLError", code |-> 0, ms |-> ms]
OtherError(ms) == [kind |-> "Exception", code |-> 0, ms |-> ms]

\* (mutant: 400 counts as a success)
check_url_inclusive(o) ==
    CASE o.kind = "response" ->
            [status |-> IF 200 <= o.code /\ o.code <= 400 THEN "up" ELSE "warning",
             response_time |-> o.ms,
             status_code |-> Some(o.code),
             error |-> None]
      [] o.kind = "HTTPError" ->
            [status |-> "down",
             response_time |-> o.ms,
             status_code |-> Some(o.code),
             error |-> Some("HTTP Error")]
      [] o.kind = "URLError" ->
            [status |-> "down",
             response_time |-> o.ms,
             status_code |-> None,
             error |-> Some("URL Error")]
      [] OTHER ->
            [status |-> "down",
             response_time |-> o.ms,
             status_code |-> None,
             error |-> Some("Error")]

\* (mutant: the code of an HTTPError is dropped)
check_url_codeless(o) ==
    CASE o.kind = "response" ->
            [status |-> IF 200 <= o.code /\ o.code < 400 THEN "up" ELSE "warning",
             response_time |-> o.ms,
             status_code |-> Some(o.code),
             error |-> None]
      [] o.kind = "HTTPError" ->
            [status |-> "down",
             response_time |-> o.ms,
             status_code |-> None,
             error |-> Some("HTTP Error")]
      [] o.kind = "URLError" ->
            [status |-> "down",
             response_time |-> o.ms,
             status_code |-> None,
             error |-> Some("URL Error")]
      [] OTHER ->
            [status |-> "down",
             response_time |-> o.ms,
             status_code |-> None,
             error |-> Some("Error")]

\* APIMonitor.check_url, lines 56-98
check_url(o) ==
    CASE o.kind = "response" ->
            [status |-> IF 200 <= o.code /\ o.code < 400 THEN "up" ELSE "warning",
             response_time |-> o.ms,
             status_code |-> Some(o.code),
             error |-> None]
      [] o.kind = "HTTPError" ->
            [status |-> "down",
             response_time |-> o.ms,
             status_code |-> Some(o.code),
             error |-> Some("HTTP Error")]
      [] o.kind = "URLError" ->
            [status |-> "down",
             response_time |-> o.ms,
             status_code |-> None,
             error |-> Some("URL Error")]
      [] OTHER ->
            [status |-> "down",
             response_time |-> o.ms,
             status_code |-> None,
             error |-> Some("Error")]

\* CLIAPIMonitor.check_url (cli_monitor.py lines 29-76): the same branches; the
\* status is the label printed (after its coloured dot).
cli_check_url(o) ==
    CASE o.kind = "response" ->
            [status |-> IF 200 <= o.code /\ o.code < 400 THEN "UP" ELSE "WARNING",
             response_time |-> o.ms,
             status_code |-> Some(o.code),
             error |-> None]
      [] o.kind = "HTTPError" ->
            [status |-> "DOWN",
             response_time |-> o.ms,
             status_code |-> Some(o.code),
             error |-> Some("HTTP")]
      [] o.kind = "URLError" ->
            [status |-> "DOWN",
             response_time |-> o.ms,
             status_code |-> None,
             error |-> Some("Connection Error")]
      [] OTHER ->
            [status |-> "DOWN",
             response_time |-> o.ms,
             status_code |-> None,
             error |-> Some("Error")]

\* One outcome of each kind of result: up, warning, down with a code, down without.
CycleOutcomes == {Response(200, 12), Response(404, 12), HTTPError(500, 7), URLError(7)}

\* Outcomes the concurrent model draws from: one Up, one Down.
Outcomes == {Response(200, 12), URLError(7)}

\* The single-target run is against a server whose answer depends on the time.
Script == <<Response(200, 12), URLError(7), Response(200, 30)>>
ScriptedOutcomes(t) == {Script[(t % Len(Script)) + 1]}

NoResult == [status |-> "unknown", response_time |-> 0,
             status_code |-> None, error |-> None]
NoEntry == None

\* Every outcome one call of check_url is tried on: the codes getcode() or
\* HTTPError.code may hold around the limits 200 and 400 of line 69, and the
\* times measured.
ProbeCodes == {100, 199, 200, 204, 301, 399, 400, 404, 500, 503}
ProbeTimes == {0, 12, 10000}
ProbeOutcomes ==
    {Response(c, ms) : c \in ProbeCodes, ms \in ProbeTimes}
        \cup {HTTPError(c, ms) : c \in ProbeCodes, ms \in ProbeTimes}
        \cup {URLError(ms) : ms \in ProbeTimes}
        \cup {OtherError(ms) : ms \in ProbeTimes}

\* No call of check_url on its own is under way.
NoProbe == [pc |-> "none", outcome |-> URLError(0),
            result |-> NoResult, cli_result |-> NoResult]

-----------------------------------------------------------------------------
(* State after construction *)

InitialState ==
    [status |-> "unknown", response_time |-> 0, last_check |-> None,
     status_code |-> None, error |-> None, history |-> <<>>]

APIMonitor_init ==
    /\ urls = <<>>
    /\ status_data = [u \in {} |-> InitialState]
    /\ monitoring = FALSE
    /\ monitor_thread = None
    /\ mainpc = "idle"
    /\ mainurl = None
    /\ pc = [w \in Threads |-> "unborn"]
    /\ it = [w \in Threads |-> 0]
    /\ url = [w \in Threads |-> None]
    /\ result = [w \in Threads |-> NoResult]
    /\ history_entry = [w \in Threads |-> NoEntry]
    /\ now = 0

\* cli_monitor.py has not been run.
NoCli == [pc |-> "none", args |-> <<>>, i |-> 0, last_url_name |-> None,
          urls |-> <<>>, running |-> FALSE, interval |-> 30, mode |-> "continuous"]

Init ==
    /\ APIMonitor_init
    /\ probe = NoProbe
    /\ cli = NoCli

-----------------------------------------------------------------------------
(* List and dict helpers *)

\* (mutant: list.pop() without the index)
Pop_last(list, i) == SubSeq(list, 1, Len(list) - 1)

\* list.pop(i), i counted from 0
Pop(list, i) == [k \in 1..(Len(list) - 1) |-> IF k <= i THEN list[k] ELSE list[k + 1]]

\* (mutant: the ids are left as they were)
Reindex_skipped(list) == list

\* for i, url_info in enumerate(self.urls): url_info['id'] = i
Reindex(list) == [k \in 1..Len(list) |-> [list[k] EXCEPT !.id = k - 1]]

\* del d[key]
Del(d, key) == [k \in (DOMAIN d) \ {key} |-> d[k]]

\* d[key] = value
Put(d, key, value) == [k \in (DOMAIN d) \cup {key} |-> IF k = key THEN value ELSE d[k]]

\* dict.update(result): the four keys of result replace the state's
Update(state, r) ==
    [state EXCEPT !.status = r.status, !.response_time = r.response_time,
                  !.status_code = r.status_code, !.error = r.error]

Alive(w) == pc[w] \notin {"unborn", "returned", "raised"}

-----------------------------------------------------------------------------
(* APIMonitor.add_url, called by APIMonitorHandler.add_url *)

\* (mutant: the target is inserted at the front)
add_url_front(u, name, cap) ==
    /\ mainpc = "idle"
    /\ Len(urls) < cap
    /\ urls' = <<[url |-> u,
                  name |-> IF name = None THEN u ELSE name[1],
                  id |-> Len(urls)]>> \o urls
    /\ mainpc' = "add_url_L36"
    /\ mainurl' = Some(u)
    /\ UNCHANGED <<status_data, monitoring, monitor_thread, workervars, now, probe, cli>>

\* lines 27-35: the target is appended with id = len(self.urls)
add_url(u, name, cap) ==
    /\ mainpc = "idle"
    /\ Len(urls) < cap
    /\ urls' = Append(urls, [url |-> u,
                             name |-> IF name = None THEN u ELSE name[1],
                             id |-> Len(urls)])
    /\ mainpc' = "add_url_L36"
    /\ mainurl' = Some(u)
    /\ UNCHANGED <<status_data, monitoring, monitor_thread, workervars, now, probe, cli>>

\* lines 36-43: self.status_data[url] = a fresh state
add_url_L36 ==
    /\ mainpc = "add_url_L36"
    /\ status_data' = Put(status_data, mainurl[1], InitialState)
    /\ mainpc' = "idle"
    /\ mainurl' = None
    /\ UNCHANGED <<urls, monitoring, monitor_thread, workervars, now, probe, cli>>

(* APIMonitor.remove_url, called by APIMonitorHandler.delete_url *)

\* (mutant: the test is url_id < len(self.urls), so that -1 is the last target)
remove_url_negative(url_id) ==
    /\ mainpc = "idle"
    /\ IF url_id < Len(urls) /\ urls # <<>>
       THEN /\ mainurl' = Some(urls[(url_id % Len(urls)) + 1].url)
            /\ urls' = Pop(urls, url_id % Len(urls))
            /\ mainpc' = "remove_url_L50"
            /\ UNCHANGED <<status_data, monitoring, monitor_thread, workervars, now, probe, cli>>
       ELSE UNCHANGED vars

\* lines 47-49: the range test, url = self.urls[url_id]['url'], self.urls.pop(url_id)
remove_url(url_id) ==
    /\ mainpc = "idle"
    /\ IF 0 <= url_id /\ url_id < Len(urls)
       THEN /\ mainurl' = Some(urls[url_id + 1].url)
            /\ urls' = Pop(urls, url_id)
            /\ mainpc' = "remove_url_L50"
            /\ UNCHANGED <<status_data, monitoring, monitor_thread, workervars, now, probe, cli>>
       ELSE UNCHANGED vars

\* lines 50-54: the state keyed by that url is deleted, the ids are rewritten
remove_url_L50 ==
    /\ mainpc = "remove_url_L50"
    /\ status_data' = IF mainurl[1] \in DOMAIN status_data
                      THEN Del(status_data, mainurl[1])
                      ELSE status_data
    /\ urls' = Reindex(urls)
    /\ mainpc' = "idle"
    /\ mainurl' = None
    /\ UNCHANGED <<monitoring, monitor_thread, workervars, now, probe, cli>>

(* APIMonitor.start_monitoring (lines 126-129) *)

NextThread == CHOOSE w \in Threads : pc[w] = "unborn" /\ \A v \in 1..(w - 1) : pc[v] # "unborn"

\* (mutant: the test of self.monitoring is left out)
start_monitoring_untested ==
    /\ mainpc = "idle"
    /\ IF urls # <<>>
       THEN /\ \E w \in Threads : pc[w] = "unborn"
            /\ monitoring' = TRUE
            /\ monitor_thread' = Some(NextThread)
            /\ pc' = [pc EXCEPT ![NextThread] = "L102"]
            /\ UNCHANGED <<urls, status_data, mainvars, it, url, result,
                           history_entry, now, probe, cli>>
       ELSE UNCHANGED vars

start_monitoring ==
    /\ mainpc = "idle"
    /\ IF ~monitoring /\ urls # <<>>
       THEN /\ \E w \in Threads : pc[w] = "unborn"
            /\ monitoring' = TRUE
            /\ monitor_thread' = Some(NextThread)
            /\ pc' = [pc EXCEPT ![NextThread] = "L102"]
            /\ UNCHANGED <<urls, status_data, mainvars, it, url, result,
                           history_entry, now, probe, cli>>
       ELSE UNCHANGED vars

(* APIMonitor.stop_monitoring (lines 133-135) *)

\* (mutant: the flag is cleared only while the thread is still running)
stop_monitoring_if_alive ==
    /\ mainpc = "idle"
    /\ monitoring' = IF monitor_thread # None /\ Alive(monitor_thread[1])
                     THEN FALSE ELSE monitoring
    /\ mainpc' = IF monitor_thread # None THEN "stop_monitoring_L135" ELSE "idle"
    /\ UNCHANGED <<urls, status_data, monitor_thread, mainurl, workervars, now,
                   probe, cli>>

\* line 133, and the test of line 134
stop_monitoring ==
    /\ mainpc = "idle"
    /\ monitoring' = FALSE
    /\ mainpc' = IF monitor_thread # None THEN "stop_monitoring_L135" ELSE "idle"
    /\ UNCHANGED <<urls, status_data, monitor_thread, mainurl, workervars, now,
                   probe, cli>>

\* line 135: join(timeout=5) returns because the thread has ended
join_returns ==
    /\ mainpc = "stop_monitoring_L135"
    /\ ~Alive(monitor_thread[1])
    /\ mainpc' = "idle"
    /\ UNCHANGED <<urls, status_data, monitoring, monitor_thread, mainurl, workervars, now,
                   probe, cli>>

\* line 135: join(timeout=5) returns because the 5 seconds are over.  The thread
\* lets 5 seconds pass only where it blocks: in check_url (up to 10 s, entered from
\* line 103) and in time.sleep(30) (line 122).
Blocked(w) == pc[w] \in {"L103", "L122"}

join_timeout ==
    /\ mainpc = "stop_monitoring_L135"
    /\ Blocked(monitor_thread[1])
    /\ mainpc' = "idle"
    /\ UNCHANGED <<urls, status_data, monitoring, monitor_thread, mainurl, workervars, now,
                   probe, cli>>

-----------------------------------------------------------------------------
(* APIMonitor.monitor_urls, one instance per started thread.  The locals   *)
(* are cleared where the code no longer reads them.                        *)

Goto(w, label) == pc' = [pc EXCEPT ![w] = label]

ClearLocals(w) ==
    /\ url' = [url EXCEPT ![w] = None]
    /\ result' = [result EXCEPT ![w] = NoResult]
    /\ history_entry' = [history_entry EXCEPT ![w] = NoEntry]

\* an uncaught KeyError or IndexError ends the thread
Raise(w) ==
    /\ Goto(w, "raised")
    /\ ClearLocals(w)
    /\ it' = [it EXCEPT ![w] = 0]
    /\ UNCHANGED <<urls, status_data, monitoring, monitor_thread, mainvars, now,
                   probe, cli>>

\* line 102: while self.monitoring
monitor_urls_L102(w) ==
    /\ pc[w] = "L102"
    /\ Goto(w, IF monitoring THEN "L103" ELSE "returned")
    /\ UNCHANGED <<urls, status_data, monitoring, monitor_thread, mainvars,
                   it, url, result, history_entry, now, probe, cli>>

\* (mutant: check_url lets the exception of a failed attempt through)
monitor_urls_L103_uncaught(w, limit, outs) ==
    /\ pc[w] = "L103"
    /\ IF it[w] < Len(urls)
       THEN /\ now < limit
            /\ \E o \in outs :
                   IF o.kind = "response"
                   THEN /\ result' = [result EXCEPT ![w] = check_url(o)]
                        /\ url' = [url EXCEPT ![w] = Some(urls[it[w] + 1].url)]
                        /\ it' = [it EXCEPT ![w] = it[w] + 1]
                        /\ Goto(w, "L108")
                        /\ UNCHANGED history_entry
                   ELSE /\ Goto(w, "raised")
                        /\ it' = [it EXCEPT ![w] = 0]
                        /\ ClearLocals(w)
       ELSE /\ Goto(w, "L122")
            /\ it' = [it EXCEPT ![w] = 0]
            /\ ClearLocals(w)
    /\ UNCHANGED <<urls, status_data, monitoring, monitor_thread, mainvars, now,
                   probe, cli>>

\* lines 103-105: the list iterator's next element, then check_url on its url
monitor_urls_L103(w, limit, outs) ==
    /\ pc[w] = "L103"
    /\ IF it[w] < Len(urls)
       THEN /\ now < limit
            /\ \E o \in outs : result' = [result EXCEPT ![w] = check_url(o)]
            /\ url' = [url EXCEPT ![w] = Some(urls[it[w] + 1].url)]
            /\ it' = [it EXCEPT ![w] = it[w] + 1]
            /\ Goto(w, "L108")
            /\ UNCHANGED history_entry
       ELSE /\ Goto(w, "L122")
            /\ it' = [it EXCEPT ![w] = 0]
            /\ ClearLocals(w)
    /\ UNCHANGED <<urls, status_data, monitoring, monitor_thread, mainvars, now,
                   probe, cli>>

\* line 108: self.status_data[url].update(result)
monitor_urls_L108(w) ==
    /\ pc[w] = "L108"
    /\ IF url[w][1] \in DOMAIN status_data
       THEN /\ status_data' = [status_data EXCEPT ![url[w][1]] = Update(@, result[w])]
            /\ Goto(w, "L109")
            /\ UNCHANGED <<urls, monitoring, monitor_thread, mainvars,
                           it, url, result, history_entry, now, probe, cli>>
       ELSE Raise(w)

\* lines 109-117: last_check = now(), then history_entry is built with its own now()
monitor_urls_L109(w) ==
    /\ pc[w] = "L109"
    /\ IF url[w][1] \in DOMAIN status_data
       THEN /\ status_data' = [status_data EXCEPT ![url[w][1]].last_check = Some(now)]
            /\ history_entry' = [history_entry EXCEPT ![w] =
                    Some([timestamp |-> now + 1,
                          status |-> result[w].status,
                          response_time |-> result[w].response_time,
                          status_code |-> result[w].status_code])]
            /\ now' = now + 2
            /\ Goto(w, "L118")
            /\ UNCHANGED <<urls, monitoring, monitor_thread, mainvars, it, url, result,
                           probe, cli>>
       ELSE Raise(w)

\* line 118: self.status_data[url]['history'].append(history_entry)
monitor_urls_L118(w) ==
    /\ pc[w] = "L118"
    /\ IF url[w][1] \in DOMAIN status_data
       THEN /\ status_data' = [status_data EXCEPT ![url[w][1]].history =
                                    Append(@, history_entry[w][1])]
            /\ Goto(w, "L119")
            /\ result' = [result EXCEPT ![w] = NoResult]
            /\ history_entry' = [history_entry EXCEPT ![w] = NoEntry]
            /\ UNCHANGED <<urls, monitoring, monitor_thread, mainvars, it, url, now, probe, cli>>
       ELSE Raise(w)

\* line 119: if len(self.status_data[url]['history']) > 50
monitor_urls_L119(w) ==
    /\ pc[w] = "L119"
    /\ IF url[w][1] \in DOMAIN status_data
       THEN /\ IF Len(status_data[url[w][1]].history) > HistoryCap
               THEN Goto(w, "L120") /\ UNCHANGED url
               ELSE Goto(w, "L103") /\ url' = [url EXCEPT ![w] = None]
            /\ UNCHANGED <<urls, status_data, monitoring, monitor_thread, mainvars,
                           it, result, history_entry, now, probe, cli>>
       ELSE Raise(w)

\* (mutant: pop() drops the newest entry instead of the oldest)
monitor_urls_L120_poplast(w) ==
    /\ pc[w] = "L120"
    /\ url[w][1] \in DOMAIN status_data /\ status_data[url[w][1]].history # <<>>
    /\ status_data' = [status_data EXCEPT ![url[w][1]].history = SubSeq(@, 1, Len(@) - 1)]
    /\ Goto(w, "L103")
    /\ url' = [url EXCEPT ![w] = None]
    /\ UNCHANGED <<urls, monitoring, monitor_thread, mainvars,
                   it, result, history_entry, now, probe, cli>>

\* line 120: self.status_data[url]['history'].pop(0)
monitor_urls_L120(w) ==
    /\ pc[w] = "L120"
    /\ IF url[w][1] \in DOMAIN status_data /\ status_data[url[w][1]].history # <<>>
       THEN /\ status_data' = [status_data EXCEPT ![url[w][1]].history = Pop(@, 0)]
            /\ Goto(w, "L103")
            /\ url' = [url EXCEPT ![w] = None]
            /\ UNCHANGED <<urls, monitoring, monitor_thread, mainvars,
                           it, result, history_entry, now, probe, cli>>
       ELSE Raise(w)

\* line 122: time.sleep(30) is over
monitor_urls_L122(w) ==
    /\ pc[w] = "L122"
    /\ Goto(w, "L102")
    /\ UNCHANGED <<urls, status_data, monitoring, monitor_thread, mainvars,
                   it, url, result, history_entry, now, probe, cli>>

-----------------------------------------------------------------------------
(* Readers: the GET handlers, which change nothing *)

\* serve_urls_json
ListTargets == urls

\* serve_status_json
GetAllStates == status_data

\* monitor.status_data.get(url, {}).get('history', [])
HistoryOf(u) == IF u \in DOMAIN status_data THEN status_data[u].history ELSE <<>>

\* (mutant: the test is url_id < len(monitor.urls), so that -1 is the last target)
serve_history_json_negative(url_id) ==
    IF url_id < Len(urls) /\ urls # <<>>
    THEN [code |-> 200, body |-> Some(HistoryOf(urls[(url_id % Len(urls)) + 1].url))]
    ELSE [code |-> 404, body |-> None]

\* serve_history_json: the response, 200 with the history as its body or
\* send_error(404)
serve_history_json(url_id) ==
    IF 0 <= url_id /\ url_id < Len(urls)
    THEN [code |-> 200, body |-> Some(HistoryOf(urls[url_id + 1].url))]
    ELSE [code |-> 404, body |-> None]

\* The history a client has after GET /api/history/<url_id>: none after a 404
GetHistory(url_id) ==
    IF serve_history_json(url_id).body = None
    THEN <<>>
    ELSE serve_history_json(url_id).body[1]

\* A GET is dispatched only between two other requests of the main thread.
ReaderCanRun == mainpc = "idle"

-----------------------------------------------------------------------------
(* Specifications *)

\* Every clock reading is two ticks after the probe before it (line 109, line 113).
TimeLimit(probes) == 2 * probes

\* One step of thread w.  The concurrent model is stopped by its clock long before a
\* history holds 50 entries, so that line 120 is run in the single-target model only.
Worker(w) ==
    \/ monitor_urls_L102(w)
    \/ monitor_urls_L103(w, TimeLimit(MaxProbes), Outcomes)
    \/ monitor_urls_L108(w)
    \/ monitor_urls_L109(w)
    \/ monitor_urls_L118(w)
    \/ monitor_urls_L119(w)
    \/ monitor_urls_L122(w)

\* One step of the main thread: a request is dispatched or the handler goes on.
Main ==
    \/ \E u \in URLs : add_url(u, None, MaxTargets)
    \/ add_url_L36
    \/ \E i \in -1..MaxTargets : remove_url(i)
    \/ remove_url_L50
    \/ start_monitoring
    \/ stop_monitoring
    \/ join_returns
    \/ join_timeout

Next == Main \/ \E w \in Threads : Worker(w)

Spec == Init /\ [][Next]_vars

\* The operating system runs every runnable thread sooner or later; a request
\* arrives or not.
Fairness ==
    /\ \A w \in Threads : WF_vars(Worker(w))
    /\ WF_vars(add_url_L36 \/ remove_url_L50 \/ join_returns \/ join_timeout)

FairSpec == Spec /\ Fairness

\* The single-target run (51 cycles and more against one target): one target is
\* registered, monitoring is started once and the thread runs on.
RingWorker ==
    \/ monitor_urls_L102(1)
    \/ monitor_urls_L103(1, TimeLimit(RingProbes), ScriptedOutcomes(now))
    \/ monitor_urls_L108(1)
    \/ monitor_urls_L109(1)
    \/ monitor_urls_L118(1)
    \/ monitor_urls_L119(1)
    \/ monitor_urls_L120(1)
    \/ monitor_urls_L122(1)

RingNext ==
    \/ add_url(UrlNames[1], None, 1)
    \/ add_url_L36
    \/ start_monitoring
    \/ RingWorker

RingSpec == Init /\ [][RingNext]_vars

-----------------------------------------------------------------------------
(* The registry under one monitor thread: targets are added with and without  *)
(* a name and removed while the thread started by the one start_monitoring     *)
(* call probes them.                                                          *)

RegistryMain ==
    \/ \E u \in URLs, name \in NameArgs : add_url(u, name, MaxTargets)
    \/ add_url_L36
    \/ \E i \in -1..MaxTargets : remove_url(i)
    \/ remove_url_L50
    \/ start_monitoring

RegistryWorker ==
    \/ monitor_urls_L102(1)
    \/ monitor_urls_L103(1, TimeLimit(MaxProbes), Outcomes)
    \/ monitor_urls_L108(1)
    \/ monitor_urls_L109(1)
    \/ monitor_urls_L118(1)
    \/ monitor_urls_L119(1)
    \/ monitor_urls_L122(1)

RegistryNext == RegistryMain \/ RegistryWorker

RegistrySpec == Init /\ [][RegistryNext]_vars

-----------------------------------------------------------------------------
(* Undisturbed cycles: the targets u1, u2, ... are registered, monitoring   *)
(* is started and no request follows; every probe may end in any kind of    *)
(* result.                                                                  *)

CycleWorker ==
    \/ monitor_urls_L102(1)
    \/ monitor_urls_L103(1, TimeLimit(CycleProbes), CycleOutcomes)
    \/ monitor_urls_L108(1)
    \/ monitor_urls_L109(1)
    \/ monitor_urls_L118(1)
    \/ monitor_urls_L119(1)
    \/ monitor_urls_L122(1)

CycleNext ==
    \/ ~monitoring /\ add_url(UrlNames[Len(urls) + 1], None, MaxTargets)
    \/ add_url_L36
    \/ start_monitoring
    \/ CycleWorker

CycleSpec == Init /\ [][CycleNext]_vars

-----------------------------------------------------------------------------
(* check_url called once, on every outcome of the attempt                   *)

monitorvars == <<urls, status_data, monitoring, monitor_thread, mainpc, mainurl,
                 pc, it, url, result, history_entry, now>>

ProbeInit ==
    /\ APIMonitor_init
    /\ probe \in {[pc |-> "call", outcome |-> o,
                   result |-> NoResult, cli_result |-> NoResult] : o \in ProbeOutcomes}
    /\ cli = NoCli

\* The call returns what the branch taken builds; no branch re-raises.
Probe ==
    /\ probe.pc = "call"
    /\ probe' = [probe EXCEPT !.pc = "done",
                              !.result = check_url(probe.outcome),
                              !.cli_result = cli_check_url(probe.outcome)]
    /\ UNCHANGED <<monitorvars, cli>>

ProbeSpec == ProbeInit /\ [][Probe]_vars

-----------------------------------------------------------------------------
(* cli_monitor.py main(): the argument loop (lines 180-223), the default    *)
(* targets (226-230) and the choice of the run (233-236)                     *)

Tokens == {"-h", "-u", "-n", "-i", "-o", "-c", "U", "N", "60"}

RECURSIVE ArgLists(_)
ArgLists(n) ==
    IF n = 0 THEN {<<>>}
    ELSE ArgLists(n - 1) \cup {Append(a, t) : a \in ArgLists(n - 1), t \in Tokens}

\* int(s): the number, or None where int raises ValueError
int(s) == IF s = "60" THEN Some(60) ELSE None

\* `x if x else y` takes x unless it is None or the empty string
Truthy(x) == x # None /\ x[1] # ""

\* CLIAPIMonitor.add_url (lines 22-27)
cli_add_url(list, u, name) ==
    Append(list, [url |-> u, name |-> IF name = None THEN u ELSE name[1]])

DefaultUrls ==
    <<[url |-> "https://httpbin.org/status/200", name |-> "HTTPBin OK"],
      [url |-> "https://httpbin.org/status/404", name |-> "HTTPBin 404"],
      [url |-> "https://jsonplaceholder.typicode.com/posts/1", name |-> "JSONPlaceholder"]>>

CliInit ==
    /\ APIMonitor_init
    /\ probe = NoProbe
    /\ cli \in {[NoCli EXCEPT !.pc = "L183", !.args = a] : a \in ArgLists(MaxArgs)}

Return == [cli EXCEPT !.pc = "return"]

\* lines 183-223: one turn of `while i < len(args)`
main_L183 ==
    /\ cli.pc = "L183"
    /\ cli' =
         IF cli.i < Len(cli.args)
         THEN LET arg == cli.args[cli.i + 1]
                  more == cli.i + 1 < Len(cli.args)
                  value == cli.args[cli.i + 2]
              IN  CASE arg \in {"-h", "--help"} -> Return
                    [] arg \in {"-u", "--url"} ->
                          IF more
                          THEN [cli EXCEPT
                                  !.urls = cli_add_url(@, value,
                                               IF Truthy(cli.last_url_name)
                                               THEN cli.last_url_name
                                               ELSE Some(value)),
                                  !.last_url_name = None,
                                  !.i = @ + 2]
                          ELSE Return
                    [] arg \in {"-n", "--name"} ->
                          IF more
                          THEN [cli EXCEPT !.last_url_name = Some(value), !.i = @ + 2]
                          ELSE Return
                    [] arg \in {"-i", "--interval"} ->
                          IF more /\ int(value) # None
                          THEN [cli EXCEPT !.interval = int(value)[1], !.i = @ + 2]
                          ELSE Return
                    [] arg \in {"-o", "--once"} ->
                          [cli EXCEPT !.mode = "once", !.i = @ + 1]
                    [] arg \in {"-c", "--continuous"} ->
                          [cli EXCEPT !.mode = "continuous", !.i = @ + 1]
                    [] OTHER -> Return
         ELSE [cli EXCEPT !.pc = "L226"]
    /\ UNCHANGED <<monitorvars, probe>>

\* lines 226-230
main_L226 ==
    /\ cli.pc = "L226"
    /\ cli' = [cli EXCEPT !.pc = "L233",
                          !.urls = IF @ = <<>> THEN DefaultUrls ELSE @]
    /\ UNCHANGED <<monitorvars, probe>>

\* lines 233-236: check_all_urls() once, or monitor_continuously(interval), which
\* sets self.running and probes until the process is interrupted
main_L233 ==
    /\ cli.pc = "L233"
    /\ cli' = IF cli.mode = "once"
              THEN [cli EXCEPT !.pc = "return"]
              ELSE [cli EXCEPT !.pc = "monitor_continuously", !.running = TRUE]
    /\ UNCHANGED <<monitorvars, probe>>

CliNext == main_L183 \/ main_L226 \/ main_L233

CliSpec == CliInit /\ [][CliNext]_vars

-----------------------------------------------------------------------------
(* Claims *)

InLoop(w) == pc[w] \in {"L103", "L108", "L109", "L118", "L119", "L120"}

\* C1: whenever a request has been served (a GET of the target list can run), the
\* targets ListTargets returns have the ids 0..n-1, the target at position i
\* having id i.
C1_IdsContiguous ==
    ReaderCanRun => \A k \in 1..Len(ListTargets) : ListTargets[k].id = k - 1

\* A removal has been served while a thread was iterating: its iterator is past the
\* end of the registry, which only a shrunken list allows.
C1_Witness ==
    /\ ReaderCanRun
    /\ Len(urls) = 1
    /\ \E w \in Threads : Alive(w) /\ it[w] = 2

\* C2: at most one thread is inside the probe loop at any time.
C2_AtMostOneWorker ==
    Cardinality({w \in Threads : InLoop(w)}) <= 1

\* C3: no reader sees a target whose latest fields are already a probe's result
\* while last_check or the history does not show that probe yet.
Torn(state) ==
    /\ state.status # "unknown"
    /\ \/ state.last_check = None
       \/ state.history = <<>>
       \/ LET last == state.history[Len(state.history)]
          IN \/ last.status # state.status
             \/ last.response_time # state.response_time
             \/ last.status_code # state.status_code
             \/ last.timestamp # state.last_check[1] + 1

C3_NoTornRead ==
    ReaderCanRun => \A u \in DOMAIN GetAllStates : ~Torn(GetAllStates[u])

\* C4: a removal never ends a thread: no thread is ended by an exception, unless it
\* looked up a url whose add_url has not stored the state yet.
C4_RemoveNeverStopsWorker ==
    [][\A w \in Threads :
          (pc[w] # "raised" /\ pc'[w] = "raised")
              => (mainpc = "add_url_L36" /\ mainurl = url[w])]_vars

\* C5: a target added while monitoring is on, and not removed, is probed (its
\* status leaves "unknown") without a stop and a start, as long as monitoring stays
\* on.  Stated for a url that no other target has, and up to the moment the model's
\* clock stops the probes.
Targets(u) == {k \in 1..Len(urls) : urls[k].url = u}

C5_Added(u) ==
    /\ monitoring
    /\ mainpc = "add_url_L36"
    /\ mainurl = Some(u)
    /\ Cardinality(Targets(u)) = 1

C5_Resolved(u) ==
    \/ ~monitoring
    \/ Cardinality(Targets(u)) # 1
    \/ u \in DOMAIN status_data /\ status_data[u].status # "unknown"
    \/ now >= TimeLimit(MaxProbes)

C5_AddedEventuallyProbed ==
    \A u \in URLs : C5_Added(u) ~> C5_Resolved(u)

Sorted(history) ==
    \A i, j \in 1..Len(history) : i < j => history[i].timestamp < history[j].timestamp

\* C6: whatever GetHistory returns holds at most 50 entries, oldest first.
C6_HistoryBounded ==
    ReaderCanRun =>
        \A i \in 0..(Len(urls) - 1) :
            Len(GetHistory(i)) <= HistoryCap /\ Sorted(GetHistory(i))

\* C7: once the single target has been probed N times (the thread is between two
\* probes), its history is the entries of the last min(N, 50) probes, in order: with
\* N = 51 it has 50 entries and the first probe's entry is the one dropped.
RingEntry(k) ==
    LET r == check_url(CHOOSE o \in ScriptedOutcomes(2 * (k - 1)) : TRUE)
    IN [timestamp |-> 2 * (k - 1) + 1, status |-> r.status,
        response_time |-> r.response_time, status_code |-> r.status_code]

LastProbes(n) ==
    LET m == IF n < HistoryCap THEN n ELSE HistoryCap
    IN [i \in 1..m |-> RingEntry(n - m + i)]

RingProbed == now \div 2

BetweenProbes(w) == pc[w] \in {"L102", "L103", "L122"}

C7_HistoryIsLastProbes ==
    (BetweenProbes(1) /\ UrlNames[1] \in DOMAIN status_data)
        => status_data[UrlNames[1]].history = LastProbes(RingProbed)

C7_Witness ==
    /\ BetweenProbes(1)
    /\ RingProbed = HistoryCap + 1
    /\ Len(status_data[UrlNames[1]].history) = HistoryCap
    /\ status_data[UrlNames[1]].history[1] = RingEntry(2)

\* C8: add_url with a url that another target already has leaves that target's state
\* (status, last_check, history) as it was.  Stated for a target that has been
\* probed and has no probe in flight.
C8_DuplicateKeepsState ==
    [][(/\ mainpc = "add_url_L36"
        /\ mainpc' = "idle"
        /\ \E k \in 1..(Len(urls) - 1) : urls[k].url = mainurl[1]
        /\ mainurl[1] \in DOMAIN status_data
        /\ status_data[mainurl[1]].history # <<>>
        /\ \A w \in Threads : url[w] # mainurl)
          => (status_data'[mainurl[1]] = status_data[mainurl[1]])]_vars

\* C9: start_monitoring changes nothing while monitoring is on or the registry is
\* empty; otherwise it turns monitoring on and starts exactly one thread, and leaves
\* the targets and the states alone.
C9_StartNoOpOrLaunch ==
    [][start_monitoring =>
         IF monitoring \/ urls = <<>>
         THEN UNCHANGED vars
         ELSE /\ monitoring'
              /\ Cardinality({w \in Threads : pc[w] # pc'[w]}) = 1
              /\ \A w \in Threads : pc[w] # pc'[w] =>
                     (pc[w] = "unborn" /\ pc'[w] = "L102" /\ monitor_thread' = Some(w))
              /\ UNCHANGED <<urls, status_data>>]_vars

\* start_monitoring has launched a second thread, from Idle after a stop that the
\* first thread has not seen.
C9_Witness ==
    /\ monitoring
    /\ mainpc = "idle"
    /\ pc[2] = "L102"
    /\ monitor_thread = Some(2)
    /\ Alive(1)

\* C10: stop_monitoring leaves monitoring off, also when it was off before, and
\* changes nothing else, and so does the join it ends with, whether the thread has
\* ended or not: a second call in a row leaves the state of the first.
ProgramState == <<urls, status_data, monitor_thread, pc, it, url, result, history_entry, now>>

C10_StopIdempotent ==
    /\ [][stop_monitoring => (~monitoring' /\ UNCHANGED ProgramState)]_vars
    /\ [][(join_returns \/ join_timeout) =>
              (~monitoring' /\ UNCHANGED <<monitoring, ProgramState>>)]_vars

\* stop_monitoring has returned while the thread has not ended.
C10_Witness ==
    /\ mainpc = "idle"
    /\ ~monitoring
    /\ monitor_thread # None
    /\ Alive(monitor_thread[1])

\* C11: while monitoring is off (stop_monitoring has been called and start_monitoring
\* has not been called since), a thread that is inside a cycle completes it: it
\* leaves the for loop only when no target remains for its iterator, every target
\* that remained having been probed; and it starts no further cycle: from the test
\* of line 102 it returns.
C11_StopCompletesCycle ==
    [][\A w \in Threads :
          (~monitoring /\ ~monitoring') =>
              /\ (InLoop(w) /\ pc'[w] \notin {"L103", "L108", "L109", "L118", "L119", "L120"})
                     => it[w] >= Len(urls)
              /\ (pc[w] = "L102" /\ pc'[w] # "L102") => pc'[w] = "returned"]_vars

\* The url and the name of every target, in registry order.
Fields(list) == [k \in 1..Len(list) |-> <<list[k].url, list[k].name>>]

C13_RemoveOutOfRangeNoOp ==
    [][\A i \in -1..MaxTargets :
          ((i < 0 \/ i >= Len(urls)) /\ remove_url(i)) => UNCHANGED vars]_vars

\* A registry on which such a call has something to spoil: two probed targets,
\* monitoring on.
C13_Witness ==
    /\ mainpc = "idle"
    /\ monitoring
    /\ Len(urls) = 2
    /\ \A k \in 1..2 : /\ urls[k].url \in DOMAIN status_data
                       /\ status_data[urls[k].url].history # <<>>

\* C14: add_url appends the target at the end with id = the length before, the
\* name given or, when none is given, the url; the targets registered before keep
\* their ids, urls and names; when add_url returns the state under the url is
\* status 'unknown', no last_check and an empty history.
C14_AddAppends ==
    /\ [][\A u \in URLs, name \in NameArgs :
              add_url(u, name, MaxTargets) =>
                  /\ Len(urls') = Len(urls) + 1
                  /\ SubSeq(urls', 1, Len(urls)) = urls
                  /\ urls'[Len(urls')].id = Len(urls)
                  /\ urls'[Len(urls')].url = u
                  /\ urls'[Len(urls')].name = (IF name = None THEN u ELSE name[1])]_vars
    /\ [][add_url_L36 =>
              /\ urls' = urls
              /\ mainurl[1] \in DOMAIN status_data'
              /\ status_data'[mainurl[1]].status = "unknown"
              /\ status_data'[mainurl[1]].last_check = None
              /\ status_data'[mainurl[1]].history = <<>>]_vars

\* A named target has been added behind an unnamed one that has been probed.
C14_Witness ==
    /\ mainpc = "idle"
    /\ Len(urls) = 2
    /\ urls[1].name = urls[1].url
    /\ urls[2].name = "A"
    /\ urls[2].id = 1
    /\ urls[1].url \in DOMAIN status_data
    /\ status_data[urls[1].url].history # <<>>
    /\ urls[2].url \in DOMAIN status_data
    /\ status_data[urls[2].url] = InitialState

\* An optional string is there and is not the empty string.
NonEmpty(x) == x # None /\ x[1] # ""

\* What the claims say of a result r (of either check_url) for the outcome o,
\* up, warning and down being the three status labels of that check_url.
Classified(o, r, up, warning, down) ==
    /\ (o.kind = "response" /\ 200 <= o.code /\ o.code < 400) =>
           (r.status = up /\ r.status_code = Some(o.code) /\ r.error = None)
    /\ (o.kind = "response" /\ ~(200 <= o.code /\ o.code < 400)) =>
           r.status = warning
    /\ o.kind = "HTTPError" =>
           (r.status = down /\ r.status_code = Some(o.code) /\ NonEmpty(r.error))
    /\ o.kind \in {"URLError", "Exception"} =>
           (r.status = down /\ r.status_code = None /\ NonEmpty(r.error))

\* C15: a call of check_url, of the server and of the command line, returns for
\* every outcome: up with the code and no error for a response with a code in
\* [200,400), warning for a response with another code, down with the code and a
\* non-empty error for an HTTPError, down with no code and a non-empty error for a
\* URLError and for any other exception.
C15_Classification ==
    /\ probe.pc \in {"none", "call", "done"}
    /\ probe.pc = "done" =>
           /\ Classified(probe.outcome, probe.result, "up", "warning", "down")
           /\ Classified(probe.outcome, probe.cli_result, "UP", "WARNING", "DOWN")
           /\ probe.result.response_time >= 0

\* Scenario B: the server answered 500.
C15_Witness ==
    /\ probe.pc = "done"
    /\ probe.outcome.kind = "HTTPError"
    /\ probe.outcome.code = 500
    /\ probe.result.status = "down"
    /\ probe.result.status_code = Some(500)

\* C16 as stated: a result that is not up holds a status code or an error, never
\* both and never neither.
C16_ExactlyOne ==
    (probe.pc = "done" /\ probe.result.status # "up") =>
        ((probe.result.status_code # None) # (probe.result.error # None))

\* C16: a warning holds the status code and no error; a down result holds a
\* non-empty error, and the status code as well when, and only when, the attempt
\* ended in an HTTPError.  A result that is not up never holds neither.
C16_CodeOrError ==
    (probe.pc = "done" /\ probe.result.status # "up") =>
        /\ probe.result.status = "warning" =>
               (probe.result.status_code # None /\ probe.result.error = None)
        /\ probe.result.status = "down" =>
               /\ NonEmpty(probe.result.error)
               /\ (probe.result.status_code # None) <=> (probe.outcome.kind = "HTTPError")
        /\ probe.result.status \in {"warning", "down"}

\* A down result that holds both: the code of the HTTPError and its message.
C16_Witness ==
    /\ probe.pc = "done"
    /\ probe.result.status = "down"
    /\ probe.result.status_code # None
    /\ probe.result.error # None

\* print_usage (lines 144-160): -u URL adds a target, -n NAME sets the display name
\* of the last target added before it.
RECURSIVE Usage(_, _, _)
Usage(args, i, list) ==
    IF i >= Len(args) THEN list
    ELSE IF args[i + 1] \in {"-u", "--url"} /\ i + 1 < Len(args)
         THEN Usage(args, i + 2, cli_add_url(list, args[i + 2], None))
    ELSE IF args[i + 1] \in {"-n", "--name"} /\ i + 1 < Len(args) /\ list # <<>>
         THEN Usage(args, i + 2, [list EXCEPT ![Len(list)].name = args[i + 2]])
    ELSE IF args[i + 1] \in {"-n", "--name", "-i", "--interval"}
         THEN Usage(args, i + 2, list)
    ELSE Usage(args, i + 1, list)

\* C19: when the arguments begin with -u URL and have been parsed without error,
\* the targets registered are those of the usage text: every -n NAME has named the
\* target of the -u URL before it.
C19_NameFollowsUrl ==
    (cli.pc = "L226" /\ Len(cli.args) >= 2 /\ cli.args[1] \in {"-u", "--url"}) =>
        cli.urls = Usage(cli.args, 0, <<>>)

\* Entries in the history of the target at position k (from 1).
Probed(k) == Len(status_data[urls[k].url].history)

\* C17: whatever the results of the probes (up, warning, down), the thread does not
\* end and self.monitoring stays on, and after p probes in all the target at
\* position k of n has been probed (p + n - k) \div n times: every probe, the failed
\* ones included, was followed by the probe of the next target, cycle after cycle.
C17_FailureDoesNotAbort ==
    /\ pc[1] \notin {"raised", "returned"}
    /\ pc[1] # "unborn" => monitoring
    /\ BetweenProbes(1) =>
           \A k \in 1..Len(urls) :
               Probed(k) = ((now \div 2) + Len(urls) - k) \div Len(urls)

\* Two cycles over two targets have been run; the first probe of the first target
\* ended down and the first probe of the second in a warning.
C17_Witness ==
    /\ BetweenProbes(1)
    /\ Len(urls) = 2
    /\ now = TimeLimit(CycleProbes)
    /\ Probed(1) = 2
    /\ Probed(2) = 2
    /\ status_data[urls[1].url].history[1].status = "down"
    /\ status_data[urls[2].url].history[1].status = "warning"

ToYield(w) ==
    [k \in 1..(Len(urls) - it[w]) |-> <<urls[it[w] + k].url, urls[it[w] + k].name>>]

\* The registered targets have different urls.
DistinctUrls == \A j, k \in 1..Len(urls) : urls[j].url = urls[k].url => j = k

\* C20: a removal that comes while a thread is inside a cycle, between two probes
\* of targets with different urls, takes at most the removed target from those the
\* cycle has still to probe: every other target not probed yet stays ahead of the
\* iterator, in the same order, so that the cycle probes each of them once.
C20_NoSkipOnResize ==
    [][\A w \in Threads, i \in 0..(Len(urls) - 1) :
          (pc[w] = "L103" /\ it[w] > 0 /\ DistinctUrls /\ remove_url(i)) =>
              ToYield(w)' = IF i >= it[w] THEN Pop(ToYield(w), i - it[w]) ELSE ToYield(w)]_vars

\* C21: when a thread has folded a result into the state of a target (the append
\* of line 118 ends the fold), the status, response_time, status_code and error
\* of the state are those of the result, last_check is set, and the history is
\* the one before with one entry more, which carries the status, response time
\* and status code of the result.
C21_FoldStoresResult ==
    [][\A w \in Threads :
          (pc[w] = "L118" /\ pc'[w] = "L119") =>
              LET u == url[w][1]
                  r == result[w]
                  state == status_data'[u]
                  last == state.history[Len(state.history)]
              IN  /\ state.status = r.status
                  /\ state.response_time = r.response_time
                  /\ state.status_code = r.status_code
                  /\ state.error = r.error
                  /\ state.last_check # None
                  /\ Len(state.history) = Len(status_data[u].history) + 1
                  /\ SubSeq(state.history, 1, Len(state.history) - 1) = status_data[u].history
                  /\ last.status = r.status
                  /\ last.response_time = r.response_time
                  /\ last.status_code = r.status_code]_vars

\* C22: remove_url with a valid id changes no other target: when the target has
\* been popped (line 49) the others have their urls and names, and the rest of
\* remove_url (lines 50-54) leaves the urls and names of the targets, and the state
\* of each of them, history included, as they were; a target with the url of the
\* removed one is no exception.
C22_RemoveKeepsOthers ==
    [][/\ \A i \in 0..(Len(urls) - 1) :
              remove_url(i) => (Fields(urls') = Pop(Fields(urls), i) /\ status_data' = status_data)
       /\ remove_url_L50 =>
              /\ Fields(urls') = Fields(urls)
              /\ \A k \in 1..Len(urls) :
                     urls[k].url \in DOMAIN status_data =>
                         /\ urls[k].url \in DOMAIN status_data'
                         /\ status_data'[urls[k].url] = status_data[urls[k].url]]_vars

\* C23: whenever a request has been served, the keys of status_data are the urls
\* of the registered targets: a state is kept for every target and for no url that
\* is not registered.
C23_KeysAreUrls ==
    ReaderCanRun => DOMAIN status_data = {urls[k].url : k \in 1..Len(urls)}

\* No thread is between the update of line 108 and the end of its fold.
NoUpdateInFlight == \A w \in Threads : pc[w] \notin {"L109", "L118", "L119", "L120"}

Consistent(state) ==
    /\ (state.status = "unknown") <=> (state.history = <<>>)
    /\ (state.history = <<>>) <=> (state.last_check = None)
    /\ state.history # <<>> =>
           LET last == state.history[Len(state.history)]
           IN  /\ last.status = state.status
               /\ last.response_time = state.response_time
               /\ last.status_code = state.status_code

\* C24: whenever no thread is inside a fold, every state has status 'unknown'
\* exactly when its history is empty and exactly when last_check is None, and the
\* last entry of a non-empty history has the status, response time and status code
\* of the state.
C24_StatesConsistent ==
    NoUpdateInFlight => \A u \in DOMAIN status_data : Consistent(status_data[u])

====
